---- MODULE Spec2Model ----
(***************************************************************************)
(* Workload generator of the link-shortener benchmark                      *)
(* (scripts/gen_workload.py): the key space builder, the operation         *)
(* sequence generators (uniform and hot), and main, which writes           *)
(* initial.tsv and ops.txt.                                                *)
(*                                                                         *)
(* Characters are one-character strings; a code, a URL and a file are      *)
(* sequences of characters.                                                *)
(***************************************************************************)
EXTENDS Integers, Sequences, FiniteSets, TLC

(***************************************************************************)
(* Bounds of the model.                                                    *)
(***************************************************************************)
\* n_initial ranges over -1..MaxNInitial, with n_ops in -1..MaxNOps ...
MaxNInitial == 10
MaxNOps == 12
\* ... and over BigInitialLo..BigInitialHi, with n_ops in 0..MaxBigOps
BigInitialLo == 53
BigInitialHi == 54
MaxBigOps == 1
\* seeds 0..MaxSeed
MaxSeed == 1
\* a call is repeated from the generator states 0..MaxPrior
MaxPrior == 2
\* the state of the pseudo-random generator when main starts: 0..MaxRng0
MaxRng0 == 1
\* the pseudo-random generator has RngMod states and advances by RngStep
RngMod == 101
RngStep == 37

(***************************************************************************)
(* Program constants.                                                      *)
(***************************************************************************)
\* string.ascii_letters + string.digits
BASE62 ==
  << "a","b","c","d","e","f","g","h","i","j","k","l","m",
     "n","o","p","q","r","s","t","u","v","w","x","y","z",
     "A","B","C","D","E","F","G","H","I","J","K","L","M",
     "N","O","P","Q","R","S","T","U","V","W","X","Y","Z",
     "0","1","2","3","4","5","6","7","8","9" >>

\* string.punctuation (the grave accent is written "grave": a TLA+ string
\* cannot hold it)
Punctuation ==
  << "!","\"","#","$","%","&","'","(",")","*","+",",","-",".","/",
     ":",";","<","=",">","?","@","[","\\","]","^","_","grave","{","|","}","~" >>

\* variant: every printable character from the space on
UrlChars_printable == << " " >> \o BASE62 \o Punctuation

\* chars of generate_url: letters, digits, punctuation
UrlChars == BASE62 \o Punctuation

\* base62_encode(n, length=8)
CodeLength == 8
\* generate_url(min_len=30, max_len=120)
min_len == 30
max_len == 120

\* the url of a 'G' operation
None == << "None" >>

(***************************************************************************)
(* The pseudo-random generator (module random): a state, re-set by         *)
(* random.seed and advanced by every draw.                                 *)
(***************************************************************************)
RngStates == 0 .. (RngMod - 1)

\* the state after k draws
Advance(r, k) == (r + k * RngStep) % RngMod

\* random.seed(seed): the state depends on the seed only
RandomSeed(prior, seed) == (seed * 7 + 3) % RngMod

\* random.choice(seq) drawn in state r (seq non-empty)
RandomChoice(r, seq) == seq[(r % Len(seq)) + 1]

\* random.randint(a, b) drawn in state r
RandomRandint(r, a, b) == a + (r % (b - a + 1))

(***************************************************************************)
(* base62_encode                                                           *)
(***************************************************************************)
Reversed(s) == [i \in 1 .. Len(s) |-> s[Len(s) + 1 - i]]

\* the loop "while n > 0": digits, least significant first
RECURSIVE EncodeDigits(_)
EncodeDigits(n) ==
  IF n > 0 THEN << BASE62[(n % 62) + 1] >> \o EncodeDigits(n \div 62)
  ELSE << >>

\* the loop "while len(result) < length": pad with the character '0'
PadResult(result, length) ==
  IF Len(result) < length
  THEN result \o [i \in 1 .. (length - Len(result)) |-> "0"]
  ELSE result

base62_encode(n, length) ==
  IF n = 0 THEN [i \in 1 .. length |-> "0"]
  ELSE LET padded == Reversed(PadResult(EncodeDigits(n), length))
       IN  SubSeq(padded, 1, IF Len(padded) < length THEN Len(padded) ELSE length)

(***************************************************************************)
(* generate_url: the url and the state of the generator after it           *)
(***************************************************************************)
generate_url(r, lo, hi) ==
  LET length == RandomRandint(r, lo, hi)
  IN  [url |-> [i \in 1 .. length |-> RandomChoice(Advance(r, i), UrlChars)],
       rng |-> Advance(r, length + 1)]

(***************************************************************************)
(* generate_initial_dataset                                                *)
(***************************************************************************)
\* variant: the iteration without the seen_codes test
dataset_step_unchecked(st) ==
  LET code == base62_encode(st.code_counter, CodeLength)
      u == generate_url(st.rng, min_len, max_len)
  IN  [entries |-> Append(st.entries, << code, u.url >>),
       seen_codes |-> st.seen_codes \cup {code},
       code_counter |-> st.code_counter + 1,
       rng |-> u.rng]

\* variant: "code_counter += 1" inside the if, so a seen code is tried again
dataset_step_retry(st) ==
  LET code == base62_encode(st.code_counter, CodeLength)
  IN  IF code \notin st.seen_codes
      THEN LET u == generate_url(st.rng, min_len, max_len)
           IN  [entries |-> Append(st.entries, << code, u.url >>),
                seen_codes |-> st.seen_codes \cup {code},
                code_counter |-> st.code_counter + 1,
                rng |-> u.rng]
      ELSE st

\* one iteration of "while len(entries) < n"
dataset_step(st) ==
  LET code == base62_encode(st.code_counter, CodeLength)
  IN  IF code \notin st.seen_codes
      THEN LET u == generate_url(st.rng, min_len, max_len)
           IN  [entries |-> Append(st.entries, << code, u.url >>),
                seen_codes |-> st.seen_codes \cup {code},
                code_counter |-> st.code_counter + 1,
                rng |-> u.rng]
      ELSE [st EXCEPT !.code_counter = st.code_counter + 1]

RECURSIVE dataset_loop(_, _)
dataset_loop(n, st) ==
  IF Len(st.entries) < n THEN dataset_loop(n, dataset_step(st)) ELSE st

\* variant: the builder without random.seed(seed)
generate_initial_dataset_unseeded(prior, n, seed) ==
  dataset_loop(n, [entries |-> << >>, seen_codes |-> {}, code_counter |-> 0,
                   rng |-> prior])

\* the entries returned and the state of the generator after the call
generate_initial_dataset(prior, n, seed) ==
  dataset_loop(n, [entries |-> << >>, seen_codes |-> {}, code_counter |-> 0,
                   rng |-> RandomSeed(prior, seed)])

(***************************************************************************)
(* generate_ops_uniform, generate_ops_hot                                  *)
(***************************************************************************)
\* int(x / y) of Python: the quotient truncated towards zero (y > 0)
IntTrunc(x, y) == IF x >= 0 THEN x \div y ELSE 0 - ((0 - x) \div y)

\* variant: the quotient rounded to the nearest integer
NReads_rounded(n_ops, read_pct) == IntTrunc(n_ops * read_pct + 50, 100)

\* n_reads = int(n_ops * read_pct / 100)
NReads(n_ops, read_pct) == IntTrunc(n_ops * read_pct, 100)

\* hot_size = max(1, len(initial_codes) // 5)
HotSize(initial_codes) ==
  IF Len(initial_codes) \div 5 > 1 THEN Len(initial_codes) \div 5 ELSE 1

\* initial_codes[:hot_size]
HotCodes(initial_codes) ==
  SubSeq(initial_codes, 1,
         IF HotSize(initial_codes) < Len(initial_codes)
         THEN HotSize(initial_codes) ELSE Len(initial_codes))

\* variant: the cold reads draw from the whole list
ColdCodes_whole(initial_codes) == initial_codes

\* initial_codes[hot_size:]
ColdCodes(initial_codes) ==
  SubSeq(initial_codes, HotSize(initial_codes) + 1, Len(initial_codes))

\* variant: the 80/20 split the other way round
HotReads_swapped(n_reads) == IntTrunc(n_reads, 5)

\* hot_reads = int(n_reads * 0.8)
HotReads(n_reads) == IntTrunc(n_reads * 4, 5)

\* variant: a read takes the code of a random counter value in 0..len(codes)
read_loop_minted(r, count, codes) ==
  IF count >= 1 /\ Len(codes) = 0
  THEN [raised |-> TRUE, ops |-> << >>, rng |-> r]
  ELSE [raised |-> FALSE,
        ops |-> [k \in 1 .. count |->
                   << "G",
                      base62_encode(RandomRandint(Advance(r, k - 1), 0, Len(codes)),
                                    CodeLength),
                      None >>],
        rng |-> IF count >= 1 THEN Advance(r, count) ELSE r]

\* "for _ in range(count): ops.append(('G', random.choice(codes), None))":
\* random.choice raises IndexError on an empty sequence
read_loop(r, count, codes) ==
  IF count >= 1 /\ Len(codes) = 0
  THEN [raised |-> TRUE, ops |-> << >>, rng |-> r]
  ELSE [raised |-> FALSE,
        ops |-> [k \in 1 .. count |->
                   << "G", RandomChoice(Advance(r, k - 1), codes), None >>],
        rng |-> IF count >= 1 THEN Advance(r, count) ELSE r]

\* the code of the i-th write: base62_encode(max_code + i)
WriteCode(max_code, i) == base62_encode(max_code + i, CodeLength)

\* "for i in range(n_writes)", from iteration i on
RECURSIVE write_loop(_, _, _, _, _)
write_loop(i, n_writes, max_code, ops, r) ==
  IF i < n_writes
  THEN LET u == generate_url(r, min_len, max_len)
       IN  write_loop(i + 1, n_writes, max_code,
                      Append(ops, << "S", WriteCode(max_code, i), u.url >>),
                      u.rng)
  ELSE [ops |-> ops, rng |-> r]

\* random.shuffle(x): "for i in reversed(range(1, len(x))): j = randbelow(i + 1);
\* x[i], x[j] = x[j], x[i]"; p is i + 1
RECURSIVE shuffle_loop(_, _, _)
shuffle_loop(x, p, r) ==
  IF p >= 2
  THEN LET j == (r % p) + 1
       IN  shuffle_loop([x EXCEPT ![p] = x[j], ![j] = x[p]], p - 1, Advance(r, 1))
  ELSE [ops |-> x, rng |-> r]

RandomShuffle(r, x) == shuffle_loop(x, Len(x), r)

\* the writes and the shuffle that end both generators
writes_and_shuffle(n_writes, initial_codes, reads) ==
  LET w == write_loop(0, n_writes, Len(initial_codes), reads.ops, reads.rng)
      s == RandomShuffle(w.rng, w.ops)
  IN  [raised |-> FALSE, ops |-> s.ops, rng |-> s.rng]

\* variant: the generator without random.seed(seed)
generate_ops_uniform_unseeded(prior, n_ops, initial_codes, read_pct, seed) ==
  LET n_reads == NReads(n_ops, read_pct)
      n_writes == n_ops - n_reads
      reads == read_loop(prior, n_reads, initial_codes)
  IN  IF reads.raised THEN reads
      ELSE writes_and_shuffle(n_writes, initial_codes, reads)

generate_ops_uniform(prior, n_ops, initial_codes, read_pct, seed) ==
  LET n_reads == NReads(n_ops, read_pct)
      n_writes == n_ops - n_reads
      reads == read_loop(RandomSeed(prior, seed), n_reads, initial_codes)
  IN  IF reads.raised THEN reads
      ELSE writes_and_shuffle(n_writes, initial_codes, reads)

generate_ops_hot(prior, n_ops, initial_codes, read_pct, seed) ==
  LET n_reads == NReads(n_ops, read_pct)
      n_writes == n_ops - n_reads
      hot_codes == HotCodes(initial_codes)
      cold_codes == ColdCodes(initial_codes)
      hot_reads == HotReads(n_reads)
      cold_reads == n_reads - hot_reads
      hot == read_loop(RandomSeed(prior, seed), hot_reads, hot_codes)
      cold == read_loop(hot.rng, cold_reads,
                        IF Len(cold_codes) > 0 THEN cold_codes ELSE initial_codes)
  IN  IF hot.raised THEN hot
      ELSE IF cold.raised THEN cold
      ELSE writes_and_shuffle(n_writes, initial_codes,
                              [cold EXCEPT !.ops = hot.ops \o cold.ops])

(***************************************************************************)
(* Serialization (main): the text written to initial.tsv and to ops.txt    *)
(***************************************************************************)
\* f"{code}\t{url}\n"
InitialLine(entry) == entry[1] \o << "\t" >> \o entry[2] \o << "\n" >>

\* f"G {code}\n" and f"S {code} {url}\n"
OpLine(op) ==
  IF op[1] = "G" THEN << "G", " " >> \o op[2] \o << "\n" >>
  ELSE << "S", " " >> \o op[2] \o << " " >> \o op[3] \o << "\n" >>

\* the lines written from the k-th on, one after the other
RECURSIVE InitialText(_, _)
InitialText(entries, k) ==
  IF k > Len(entries) THEN << >>
  ELSE InitialLine(entries[k]) \o InitialText(entries, k + 1)

RECURSIVE OpsText(_, _)
OpsText(operations, k) ==
  IF k > Len(operations) THEN << >>
  ELSE OpLine(operations[k]) \o OpsText(operations, k + 1)

(***************************************************************************)
(* main                                                                    *)
(***************************************************************************)
VARIABLES
  args,             \* the parsed command line
  pc,               \* the statement main is at
  rng,              \* the state of the module-level generator of random
  dir_created,      \* os.makedirs(out_dir) has run
  initial_entries,  \* the entries returned by generate_initial_dataset
  initial_codes,    \* [code for code, _ in initial_entries]
  ops_seed,         \* the seed passed to the operation generator
  ops,              \* the operations returned by the operation generator
  files,            \* the files written: name -> text
  builder           \* the locals of generate_initial_dataset while its loop is
                    \* followed iteration by iteration (SpecBuilder), else None

vars == << args, pc, rng, dir_created, initial_entries, initial_codes,
           ops_seed, ops, files, builder >>

\* the values of --read_pct tried (type=int: any integer is accepted)
ReadPcts == {0, 50, 95, 100, 150}

\* the command lines tried (type=int accepts negative counts)
Configs ==
  { c \in [n_initial : ((0 - 1) .. MaxNInitial) \cup (BigInitialLo .. BigInitialHi),
           n_ops : (0 - 1) .. MaxNOps,
           read_pct : ReadPcts,
           dist : {"uniform", "hot"},
           seed : 0 .. MaxSeed] :
      c.n_initial > MaxNInitial => c.n_ops \in 0 .. MaxBigOps }

Init ==
  /\ args \in Configs
  /\ pc = "makedirs"
  /\ rng \in 0 .. MaxRng0
  /\ dir_created = FALSE
  /\ initial_entries = << >>
  /\ initial_codes = << >>
  /\ ops_seed = None
  /\ ops = << >>
  /\ files = << >>
  /\ builder = None

\* os.makedirs(args.out_dir, exist_ok=True)
MakeDirs ==
  /\ pc = "makedirs"
  /\ dir_created' = TRUE
  /\ pc' = "gen_initial"
  /\ UNCHANGED << args, rng, initial_entries, initial_codes, ops_seed, ops, files,
                  builder >>

\* initial_entries = generate_initial_dataset(args.n_initial, args.seed)
GenInitial ==
  /\ pc = "gen_initial"
  /\ LET res == generate_initial_dataset(rng, args.n_initial, args.seed)
     IN  /\ initial_entries' = res.entries
         /\ initial_codes' = [i \in 1 .. Len(initial_entries') |->
                                 initial_entries'[i][1]]
         /\ rng' = res.rng
  /\ pc' = "write_initial"
  /\ UNCHANGED << args, dir_created, ops_seed, ops, files, builder >>

\* with open(initial_path, 'w') as f: ...
WriteInitial ==
  /\ pc = "write_initial"
  /\ files' = ("initial.tsv" :> InitialText(initial_entries, 1)) @@ files
  /\ pc' = "gen_ops"
  /\ UNCHANGED << args, rng, dir_created, initial_entries, initial_codes, ops_seed, ops,
                  builder >>

\* the call main makes for args.dist
GenerateOps(prior, dist, n_ops, codes, read_pct, seed) ==
  IF dist = "uniform"
  THEN generate_ops_uniform(prior, n_ops, codes, read_pct, seed)
  ELSE generate_ops_hot(prior, n_ops, codes, read_pct, seed)

\* the seed main passes to the operation generator
OpsSeed(seed) == seed + 1

\* ops = generate_ops_...(args.n_ops, initial_codes, args.read_pct, args.seed + 1)
GenOps ==
  /\ pc = "gen_ops"
  /\ LET res == GenerateOps(rng, args.dist, args.n_ops, initial_codes,
                            args.read_pct, OpsSeed(args.seed))
     IN  /\ ~res.raised
         /\ ops' = res.ops
         /\ rng' = res.rng
  /\ ops_seed' = OpsSeed(args.seed)
  /\ pc' = "write_ops"
  /\ UNCHANGED << args, dir_created, initial_entries, initial_codes, files, builder >>

\* the same call when random.choice raises IndexError: nothing catches it,
\* main ends with a traceback and a non-zero exit status
GenOpsRaises ==
  /\ pc = "gen_ops"
  /\ LET res == GenerateOps(rng, args.dist, args.n_ops, initial_codes,
                            args.read_pct, OpsSeed(args.seed))
     IN  /\ res.raised
         /\ rng' = res.rng
  /\ ops_seed' = OpsSeed(args.seed)
  /\ pc' = "crashed"
  /\ UNCHANGED << args, dir_created, initial_entries, initial_codes, ops, files,
                  builder >>

\* with open(ops_path, 'w') as f: ...
WriteOps ==
  /\ pc = "write_ops"
  /\ files' = ("ops.txt" :> OpsText(ops, 1)) @@ files
  /\ pc' = "done"
  /\ UNCHANGED << args, rng, dir_created, initial_entries, initial_codes, ops_seed, ops,
                  builder >>

Next ==
  \/ MakeDirs
  \/ GenInitial
  \/ WriteInitial
  \/ GenOps
  \/ GenOpsRaises
  \/ WriteOps

Spec == Init /\ [][Next]_vars

(***************************************************************************)
(* generate_initial_dataset followed one loop iteration at a time, as main *)
(* calls it.  The result depends on n_initial and on the seed only, so the *)
(* other options are fixed.                                                *)
(***************************************************************************)
InitBuilder ==
  /\ Init
  /\ args.n_ops = 0 /\ args.read_pct = 0 /\ args.dist = "uniform"

\* random.seed(seed); entries = []; seen_codes = set(); code_counter = 0
BuilderCall ==
  /\ pc = "gen_initial"
  /\ builder' = [entries |-> << >>, seen_codes |-> {}, code_counter |-> 0,
                 rng |-> RandomSeed(rng, args.seed)]
  /\ rng' = RandomSeed(rng, args.seed)
  /\ pc' = "builder_loop"
  /\ UNCHANGED << args, dir_created, initial_entries, initial_codes, ops_seed, ops,
                  files >>

\* one iteration of "while len(entries) < n"
BuilderIter ==
  /\ pc = "builder_loop"
  /\ Len(builder.entries) < args.n_initial
  /\ builder' = dataset_step(builder)
  /\ rng' = builder'.rng
  /\ UNCHANGED << args, pc, dir_created, initial_entries, initial_codes, ops_seed,
                  ops, files >>

\* the loop condition fails: "return entries", and main takes the codes
BuilderReturn ==
  /\ pc = "builder_loop"
  /\ ~(Len(builder.entries) < args.n_initial)
  /\ initial_entries' = builder.entries
  /\ initial_codes' = [i \in 1 .. Len(initial_entries') |->
                          initial_entries'[i][1]]
  /\ pc' = "write_initial"
  /\ UNCHANGED << args, rng, dir_created, ops_seed, ops, files, builder >>

NextBuilder ==
  \/ MakeDirs
  \/ BuilderCall
  \/ BuilderIter
  \/ BuilderReturn

\* the interpreter runs the next statement as long as there is one
SpecBuilder == InitBuilder /\ [][NextBuilder]_vars /\ WF_vars(NextBuilder)

(***************************************************************************)
(* Vocabulary of the properties                                            *)
(***************************************************************************)
\* the configuration is one the generator is specified for
ValidConfig ==
  /\ args.n_initial >= 0
  /\ args.n_ops >= 0
  /\ args.read_pct \in 0 .. 100

\* the operation generator has returned
OpsGenerated == pc \in {"write_ops", "done"}

\* the key space builder has returned
KeysGenerated == pc \in {"write_initial", "gen_ops", "write_ops", "done", "crashed"}

SetOf(seq) == {seq[i] : i \in 1 .. Len(seq)}

ReadIdx == {i \in 1 .. Len(ops) : ops[i][1] = "G"}
WriteIdx == {i \in 1 .. Len(ops) : ops[i][1] = "S"}

(***************************************************************************)
(* C1  Write-code disjointness: for n_initial >= 0, n_ops >= 0 and         *)
(* read_pct in 0..100, in both modes, no code of an 'S' operation equals   *)
(* an initial code, and no two 'S' operations carry the same code.         *)
(***************************************************************************)
C1_WriteCodesDisjoint ==
  (ValidConfig /\ OpsGenerated) =>
     /\ \A i \in WriteIdx : ops[i][2] \notin SetOf(initial_codes)
     /\ \A i, j \in WriteIdx : i # j => ops[i][2] # ops[j][2]

(***************************************************************************)
(* C2  generate_initial_dataset(n, seed), n >= 0, returns exactly n        *)
(* entries whose codes are pairwise distinct, each code 8 characters long  *)
(* and made of symbols of the 62-symbol alphabet.                          *)
(***************************************************************************)
C2_InitialDataset ==
  (KeysGenerated /\ args.n_initial >= 0) =>
     /\ Len(initial_entries) = args.n_initial
     /\ \A i, j \in 1 .. Len(initial_entries) :
           i # j => initial_entries[i][1] # initial_entries[j][1]
     /\ \A i \in 1 .. Len(initial_entries) :
           /\ Len(initial_entries[i][1]) = 8
           /\ \A k \in 1 .. 8 : initial_entries[i][1][k] \in SetOf(BASE62)

\* the builder has returned more entries than the counter value whose code
\* was already seen
C2_Witness ==
  /\ pc = "write_initial"
  /\ Len(initial_entries) > 52
  /\ Len(initial_entries) = args.n_initial

(***************************************************************************)
(* C3  Operation count: for n_ops >= 0, read_pct in 0..100 and a non-empty *)
(* Key Set, the sequence returned has length n_ops and contains exactly    *)
(* round(n_ops*read_pct/100) 'G' operations, the rest being 'S'.           *)
(***************************************************************************)
\* round(x / y) of Python: to the nearest integer, a tie to the even one
RoundHalfEven(x, y) ==
  LET q == x \div y
      rem == x % y
  IN  IF 2 * rem < y THEN q
      ELSE IF 2 * rem > y THEN q + 1
      ELSE IF q % 2 = 0 THEN q ELSE q + 1

C5_ConfigErrorsRejected ==
  (~ValidConfig) =>
     /\ initial_entries = << >>
     /\ ops = << >>
     /\ DOMAIN files = {}
     /\ pc # "done"

(***************************************************************************)
(* C6  With an empty Key Set (n_initial = 0) and at least one read         *)
(* required, the run does not write initial.tsv and then abort with an     *)
(* unhandled error during operation generation, leaving ops.txt unwritten. *)
(***************************************************************************)
C6_EmptyKeySetHandled ==
  ~ ( /\ ValidConfig
      /\ args.n_initial = 0
      /\ (args.n_ops * args.read_pct) \div 100 >= 1
      /\ pc = "crashed"
      /\ "initial.tsv" \in DOMAIN files
      /\ "ops.txt" \notin DOMAIN files )

(***************************************************************************)
(* C7  Hot-mode skew: for dist=hot with a non-empty Key Set and at least   *)
(* one read, at least 75% of the read operations carry a code of the hot   *)
(* prefix, the first max(1, floor(len(initial_codes)/5)) codes.            *)
(***************************************************************************)
HotPrefix ==
  LET fifth == Len(initial_codes) \div 5
  IN  {initial_codes[k] : k \in 1 .. (IF fifth > 1 THEN fifth ELSE 1)}

HotReadIdx == {i \in ReadIdx : ops[i][2] \in HotPrefix}

HotCase ==
  /\ OpsGenerated /\ args.dist = "hot"
  /\ Len(initial_codes) > 0 /\ ReadIdx # {}

C7_Original_HotSkew ==
  HotCase => 4 * Cardinality(HotReadIdx) >= 3 * Cardinality(ReadIdx)

\* C7 as amended: at least floor(n_reads*0.8) of the n_reads reads carry a
\* hot-prefix code, which is at least 75% of them when n_reads is 4, 5, 8, 9,
\* 10 or at least 12
C7_HotSkew ==
  HotCase =>
     /\ Cardinality(HotReadIdx) >= (4 * Cardinality(ReadIdx)) \div 5
     /\ (Cardinality(ReadIdx) \notin {1, 2, 3, 6, 7, 11}
           => 4 * Cardinality(HotReadIdx) >= 3 * Cardinality(ReadIdx))

\* twelve reads over a Key Set with a cold partition, some of them cold
C7_Witness ==
  /\ HotCase /\ pc = "write_ops"
  /\ Cardinality(ReadIdx) >= 12
  /\ HotReadIdx # ReadIdx

(***************************************************************************)
(* C8  Phase-2 determinism: for fixed (n_ops, read_pct, dist, seed,        *)
(* initial_codes) the operation generator returns the same sequence        *)
(* whatever the state of the pseudo-random generator before the call; and  *)
(* main passes it the seed seed+1, different from the builder's seed.      *)
(***************************************************************************)
C8_OpsDeterministic ==
  (pc = "write_ops") =>
     /\ ops_seed = args.seed + 1
     /\ ops_seed # args.seed
     /\ \A r \in 0 .. MaxPrior :
           LET alone == GenerateOps(r, args.dist, args.n_ops, initial_codes,
                                    args.read_pct, ops_seed)
           IN  ~alone.raised /\ alone.ops = ops

\* a sequence of reads and writes generated after the key space builder
C8_Witness ==
  /\ pc = "write_ops"
  /\ ReadIdx # {} /\ Cardinality(WriteIdx) >= 2
  /\ Len(initial_entries) >= 2

(***************************************************************************)
(* C9  Key Space Builder determinism: two calls of                         *)
(* generate_initial_dataset with the same (n, seed), from any two prior    *)
(* states of the pseudo-random generator, return identical entry lists.    *)
(***************************************************************************)
C9_DatasetDeterministic ==
  (pc = "write_initial") =>
     \A r \in 0 .. MaxPrior :
        generate_initial_dataset(r, args.n_initial, args.seed).entries
           = initial_entries

\* the builder has returned several entries
C9_Witness ==
  /\ pc = "write_initial"
  /\ Len(initial_entries) >= 3

(***************************************************************************)
(* Parsing the two files, as the harness that reads them does: a file is   *)
(* cut into lines at the newlines, a line of initial.tsv into fields at    *)
(* the tabs, a line of ops.txt into fields at the spaces.                  *)
(***************************************************************************)
\* the first position from i on that holds sep, Len(text) + 1 when none does
RECURSIVE FindSep(_, _, _)
FindSep(text, i, sep) ==
  IF i > Len(text) \/ text[i] = sep THEN i ELSE FindSep(text, i + 1, sep)

\* the fields of text[from ..], cut at every sep
RECURSIVE SplitFrom(_, _, _)
SplitFrom(text, from, sep) ==
  LET e == FindSep(text, from, sep)
  IN  IF e > Len(text) THEN << SubSeq(text, from, Len(text)) >>
      ELSE << SubSeq(text, from, e - 1) >> \o SplitFrom(text, e + 1, sep)

\* the lines of text[from ..]; each line ends at a newline
RECURSIVE LinesFrom(_, _)
LinesFrom(text, from) ==
  IF from > Len(text) THEN << >>
  ELSE LET e == FindSep(text, from, "\n")
       IN  << SubSeq(text, from, e - 1) >> \o LinesFrom(text, e + 1)

Malformed == << "malformed" >>

ParseInitialLine(line) ==
  LET fields == SplitFrom(line, 1, "\t")
  IN  IF Len(fields) = 2 THEN << fields[1], fields[2] >> ELSE Malformed

ParseOpLine(line) ==
  LET fields == SplitFrom(line, 1, " ")
  IN  IF Len(fields) = 2 /\ fields[1] = << "G" >>
      THEN << "G", fields[2], None >>
      ELSE IF Len(fields) = 3 /\ fields[1] = << "S" >>
      THEN << "S", fields[2], fields[3] >>
      ELSE Malformed

ParseInitial(text) ==
  LET lines == LinesFrom(text, 1)
  IN  [k \in 1 .. Len(lines) |-> ParseInitialLine(lines[k])]

ParseOps(text) ==
  LET lines == LinesFrom(text, 1)
  IN  [k \in 1 .. Len(lines) |-> ParseOpLine(lines[k])]

BuilderReturned == pc = "write_initial"

C12_EncodingInjective ==
  (pc \in {"builder_loop", "write_initial"}) =>
     /\ \A a, b \in 0 .. (builder.code_counter - 1) :
           a # b => base62_encode(a, 8) # base62_encode(b, 8)
     /\ builder.code_counter = Len(builder.entries)
     /\ \A i \in 1 .. Len(builder.entries) :
           builder.entries[i][1] = base62_encode(i - 1, 8)

(***************************************************************************)
(* C13  Hot-mode read split: over a non-empty Key Set of pairwise-distinct *)
(* codes, the hot partition is the first max(1, floor(len/5)) codes and    *)
(* the cold partition the rest.  When the cold partition is non-empty,     *)
(* exactly floor(n_reads*0.8) of the n_reads reads carry a hot code and    *)
(* the other reads carry a cold code.  When it is empty, the generator     *)
(* does not fail and the other reads carry a code of the Key Set.          *)
(***************************************************************************)
ColdPart == SetOf(initial_codes) \ HotPrefix

ColdReadIdx == {i \in ReadIdx : ops[i][2] \in ColdPart}

====
